---- MODULE Spec2Model ----
(***************************************************************************)
(* Titles.draw (src/src/components/titles/index.js) and the legend style   *)
(* pass (src/unnamed/part_000) as state machines.                          *)
(*                                                                         *)
(* JavaScript values are written as follows: the value undefined is the    *)
(* string "undefined"; the booleans kept in layout flags are the strings   *)
(* "true" and "false" (a flag is undefined, true or false); a DOM          *)
(* selection that holds no element has el = FALSE.  Lengths are pixels as  *)
(* integers.                                                               *)
(***************************************************************************)
EXTENDS Integers, Sequences, FiniteSets, TLC

U == "undefined"

(***************************************************************************)
(* String helpers: what String.prototype.trim / indexOf / replace do.      *)
(***************************************************************************)
Ch(s, i) == SubSeq(s, i, i)

RECURSIVE TrimLeft(_)
TrimLeft(s) ==
    IF Len(s) > 0 /\ Ch(s, 1) = " " THEN TrimLeft(SubSeq(s, 2, Len(s))) ELSE s

RECURSIVE TrimRight(_)
TrimRight(s) ==
    IF Len(s) > 0 /\ Ch(s, Len(s)) = " " THEN TrimRight(SubSeq(s, 1, Len(s) - 1)) ELSE s

Trim(s) == TrimRight(TrimLeft(s))

\* s.indexOf(sub): the 0-based index of the first occurrence, -1 when none.
IndexOf(s, sub) ==
    LET hits == {i \in 1..(Len(s) - Len(sub) + 1) : SubSeq(s, i, i + Len(sub) - 1) = sub}
    IN  IF hits = {} THEN -1
        ELSE (CHOOSE i \in hits : \A j \in hits : i <= j) - 1

Digits == {"0", "1", "2", "3", "4", "5", "6", "7", "8", "9"}

\* the length of the run of digits of s that starts at index j
RECURSIVE DigitRun(_, _)
DigitRun(s, j) ==
    IF j <= Len(s) /\ Ch(s, j) \in Digits THEN 1 + DigitRun(s, j + 1) ELSE 0

\* numStripRE = / [XY][0-9]* / matches at index i of s
NumStripAt(s, i) ==
    /\ i + 2 <= Len(s)
    /\ Ch(s, i) = " "
    /\ Ch(s, i + 1) \in {"X", "Y"}
    /\ LET k == DigitRun(s, i + 2)
       IN  i + 2 + k <= Len(s) /\ Ch(s, i + 2 + k) = " "

\* s.replace(numStripRE, ' % '): the first match only (the regexp has no g flag)
NumStrip(s) ==
    LET hits == {i \in 1..Len(s) : NumStripAt(s, i)}
    IN  IF hits = {} THEN s
        ELSE LET i == CHOOSE h \in hits : \A j \in hits : h <= j
                 k == DigitRun(s, i + 2)
             IN  SubSeq(s, 1, i - 1) \o " % " \o SubSeq(s, i + 3 + k, Len(s))

(***************************************************************************)
(* Titles.draw: the values computed before anything is drawn.              *)
(***************************************************************************)
Truthy(flag) == flag = "true"

\* The edits key of the title's property (editAttr); U when no branch assigns it.
\* The third test is prop.indexOf('colorbar' !== -1), i.e. prop.indexOf(true),
\* which searches for the text "true" and is truthy unless it yields 0.
EditAttrOf(prop) ==
    IF prop = "title.text" THEN "titleText"
    ELSE IF IndexOf(prop, "axis") # -1 THEN "axisTitleText"
    ELSE IF IndexOf(prop, "true") # 0 THEN "colorbarTitleText"
    ELSE U

\* gd._context.edits[editAttr]; edits[undefined] is undefined, hence falsy
EditableOf(prop, ed) ==
    LET a == EditAttrOf(prop) IN IF a = U THEN FALSE ELSE ed[a]

\* (title && title.text ? title.text : '').trim()
TitleTxt(text) == Trim(IF text = U THEN "" ELSE text)

OpacityFull == 10
OpacityPlaceholder == 2
OpacityHidden == 0

\* the placeholder test without numStripRE
IsPlaceholderTextExact(txt, placeholder) == txt = placeholder

\* txt.replace(numStripRE, ' % ') === options.placeholder.replace(numStripRE, ' % ')

IsPlaceholderText(txt, placeholder) == NumStrip(txt) = NumStrip(placeholder)

\* opacity, isplaceholder and txt after the placeholder test (opacity in tenths)
Classify(txt, placeholder, editable) ==
    IF txt = "" THEN [opacity |-> OpacityHidden, isplaceholder |-> FALSE, txt |-> txt]
    ELSE IF IsPlaceholderText(txt, placeholder)
         THEN [opacity |-> OpacityPlaceholder, isplaceholder |-> TRUE,
               txt |-> IF editable THEN txt ELSE ""]
         ELSE [opacity |-> OpacityFull, isplaceholder |-> FALSE, txt |-> txt]

\* Lib.templateString(txt, meta): every %{key} becomes meta[key], '' for a
\* key meta does not hold.  meta is a function from keys to strings.
RECURSIVE TemplateString(_, _)
TemplateString(s, meta) ==
    LET open == IndexOf(s, "%{")
    IN  IF open = -1 THEN s
        ELSE LET rest  == SubSeq(s, open + 3, Len(s))
                 close == IndexOf(rest, "}")
             IN  IF close = -1 THEN s
                 ELSE LET key == SubSeq(rest, 1, close)
                          val == IF key \in DOMAIN meta THEN meta[key] ELSE ""
                      IN  SubSeq(s, 1, open) \o val
                            \o TemplateString(SubSeq(rest, close + 2, Len(rest)), meta)

(***************************************************************************)
(* Geometry of scootTitle.  A bounding box is [left, right, top, bottom];  *)
(* y grows downwards.  An avoid option is a record: has (the option and    *)
(* its selection are given), side, pad (-1 when not numeric), maxShift     *)
(* (0 when not set: the code tests it for truthiness), offsetLeft,         *)
(* offsetTop, and sel, the set of the avoided elements' boxes.             *)
(***************************************************************************)
Sides == {"left", "right", "top", "bottom"}

OPPOSITE_SIDE(side) ==
    CASE side = "left" -> "right"
      [] side = "right" -> "left"
      [] side = "top" -> "bottom"
      [] side = "bottom" -> "top"

DefaultPad == 2

Max2(a, b) == IF a >= b THEN a ELSE b
Min2(a, b) == IF a <= b THEN a ELSE b

\* var shift = 0, then shift = Math.max(shift, c) for every c of S
RECURSIVE MaxOf(_)
MaxOf(S) ==
    IF S = {} THEN 0
    ELSE LET x == CHOOSE y \in S : TRUE IN Max2(x, MaxOf(S \ {x}))

\* Lib.bBoxIntersect(a, b, pad)
bBoxIntersect(a, b, pad) ==
    /\ a.left <= b.right + pad
    /\ b.left <= a.right + pad
    /\ a.top <= b.bottom + pad
    /\ b.top <= a.bottom + pad

PaperBB(w, h) == [left |-> 0, top |-> 0, right |-> w, bottom |-> h]

ShiftSign(side) == IF side = "left" \/ side = "top" THEN -1 ELSE 1

PadOf(avoid) == IF avoid.pad >= 0 THEN avoid.pad ELSE DefaultPad

\* avoid.maxShift || shiftSign * (paperbb[avoid.side] - titlebb[avoid.side])
MaxShiftOf(avoid, titlebb, w, h) ==
    IF avoid.maxShift # 0 THEN avoid.maxShift
    ELSE ShiftSign(avoid.side) * (PaperBB(w, h)[avoid.side] - titlebb[avoid.side])

\* titlebb with the opposite of the avoided elements' offset
OffsetBB(avoid, bb) ==
    [left |-> bb.left - avoid.offsetLeft, right |-> bb.right - avoid.offsetLeft,
     top |-> bb.top - avoid.offsetTop, bottom |-> bb.bottom - avoid.offsetTop]

\* the shift asked for by the avoided elements, before Math.min(maxshift, shift)
RawShiftNoPad(avoid, titlebb) ==
    LET tb == OffsetBB(avoid, titlebb)
    IN  MaxOf({ShiftSign(avoid.side) * (b[avoid.side] - tb[OPPOSITE_SIDE(avoid.side)])
                 : b \in {c \in avoid.sel : bBoxIntersect(tb, c, PadOf(avoid))}})

RawShift(avoid, titlebb) ==
    LET tb == OffsetBB(avoid, titlebb)
    IN  MaxOf({ShiftSign(avoid.side) * (b[avoid.side] - tb[OPPOSITE_SIDE(avoid.side)])
                 + PadOf(avoid)
                 : b \in {c \in avoid.sel : bBoxIntersect(tb, c, PadOf(avoid))}})

ShiftUncapped(avoid, titlebb, w, h) ==
    LET maxshift == MaxShiftOf(avoid, titlebb, w, h)
    IN  IF maxshift < 0 THEN maxshift ELSE RawShift(avoid, titlebb)

ShiftOf(avoid, titlebb, w, h) ==
    LET maxshift == MaxShiftOf(avoid, titlebb, w, h)
    IN  IF maxshift < 0 THEN maxshift
        ELSE Min2(maxshift, RawShift(avoid, titlebb))

NoTransform == <<0, 0, FALSE>>

\* strTranslate(x, y) as the triple <<x, y, TRUE>>; attr('transform', null) is NoTransform
Translate(x, y) == <<x, y, TRUE>>

ShiftTemplate(side, shift) ==
    CASE side = "left" -> Translate(-shift, 0)
      [] side = "right" -> Translate(shift, 0)
      [] side = "top" -> Translate(0, -shift)
      [] side = "bottom" -> Translate(0, shift)

\* scootTitle: the transform the title group ends with, given the one it had
scootTitle(avoid, txt, titlebb, w, h, old) ==
    IF avoid.has /\ avoid.side # U /\ txt # ""
    THEN LET maxshift == MaxShiftOf(avoid, titlebb, w, h)
             shift    == ShiftOf(avoid, titlebb, w, h)
         IN  IF shift > 0 \/ maxshift < 0
             THEN ShiftTemplate(avoid.side, shift)
             ELSE NoTransform
    ELSE old

\* the shift block of the secondary x title (group g-xtitleboth)
XBothTransform(avoid, txt, bb, xside, old) ==
    IF avoid.has /\ avoid.side # U /\ txt # ""
    THEN LET shiftSign == IF avoid.side = "left" \/ xside = "both" THEN -1 ELSE 1
             pad       == PadOf(avoid)
             maxshift  == IF avoid.maxShift # 0 THEN avoid.maxShift
                          ELSE shiftSign * (0 - (bb.bottom - bb.top))
             tb        == OffsetBB(avoid, bb)
             raw       == MaxOf({shiftSign * (b[avoid.side] - tb[OPPOSITE_SIDE(avoid.side)]) + pad
                                   : b \in {c \in avoid.sel : bBoxIntersect(tb, c, pad)}})
             shift     == IF maxshift < 0 THEN maxshift ELSE Min2(maxshift, raw)
         IN  Translate(shift, maxshift)
    ELSE old

\* the shift block of the secondary y title (group g-ytitleboth)
YBothTransform(avoid, txt, bb, old) ==
    IF avoid.has /\ avoid.side # U /\ txt # ""
    THEN IF avoid.side = "left"
         THEN LET shiftSign == -1
                  maxshift  == IF avoid.maxShift # 0 THEN avoid.maxShift
                               ELSE shiftSign * (0 - bb.left)
                  tb        == OffsetBB(avoid, bb)
                  raw       == MaxOf({shiftSign * (b.right - tb.top) : b \in avoid.sel})
                  shift     == IF maxshift < 0 THEN maxshift ELSE Min2(maxshift, raw)
              IN  IF shift > 0 \/ maxshift < 0 THEN Translate(shift, 0) ELSE NoTransform
         ELSE NoTransform
    ELSE old

(***************************************************************************)
(* The legend style pass (src/unnamed/part_000).  A value of a trace        *)
(* attribute is undefined, a number or an array of numbers; lengths are    *)
(* pixels, opacities are tenths.  The transform of a 'layers' group is in  *)
(* half pixels, so that 0.5 * boxSizingAttribute stays an integer.         *)
(***************************************************************************)
CST_MARKER_SIZE == 12
CST_LINE_WIDTH == 5
CST_MARKER_LINE_WIDTH == 2
MAX_LINE_WIDTH == 10
MAX_MARKER_LINE_WIDTH == 5

Undef == [kind |-> "undefined", n |-> 0, a |-> <<>>]
Num(n) == [kind |-> "number", n |-> n, a |-> <<>>]
Arr(a) == [kind |-> "array", n |-> 0, a |-> a]

\* a value that stylePoints did not compute
NotSet == [kind |-> "unset", n |-> 0, a |-> <<>>]

DigitVal(c) ==
    CASE c = "0" -> 0 [] c = "1" -> 1 [] c = "2" -> 2 [] c = "3" -> 3 [] c = "4" -> 4
      [] c = "5" -> 5 [] c = "6" -> 6 [] c = "7" -> 7 [] c = "8" -> 8 [] c = "9" -> 9

\* the number the first k characters of s write in base ten
RECURSIVE DigitsValue(_, _)
DigitsValue(s, k) ==
    IF k = 0 THEN 0 ELSE 10 * DigitsValue(s, k - 1) + DigitVal(Ch(s, k))

\* parseInt(v) of the text String(v): leading blanks, a sign, then the digits;
\* NaN (nan = TRUE) when no digit follows
ParseInt(s) ==
    LET t    == TrimLeft(s)
        neg  == Len(t) > 0 /\ Ch(t, 1) = "-"
        body == IF Len(t) > 0 /\ Ch(t, 1) \in {"-", "+"} THEN SubSeq(t, 2, Len(t)) ELSE t
        k    == DigitRun(body, 1)
    IN  IF k = 0 THEN [nan |-> TRUE, val |-> 0]
        ELSE [nan |-> FALSE,
              val |-> IF neg THEN -DigitsValue(body, k) ELSE DigitsValue(body, k)]

RECURSIVE SumSeq(_)
SumSeq(a) == IF a = <<>> THEN 0 ELSE a[1] + SumSeq(SubSeq(a, 2, Len(a)))

\* Lib.mean of a non-empty array of numbers
Mean(a) == SumSeq(a) \div Len(a)

\* pickFirst(array) for the legend item d0
pickFirst(a, d0) ==
    IF d0.distinct /\ d0.index # 0 /\ d0.index + 1 <= Len(a) /\ a[d0.index + 1] # 0
    THEN a[d0.index + 1]
    ELSE a[1]

NoBounds == [has |-> FALSE, lo |-> 0, hi |-> 0]
Bounds(lo, hi) == [has |-> TRUE, lo |-> lo, hi |-> hi]

\* a JavaScript value tested for truthiness
TruthyVal(v) == v.kind = "array" \/ (v.kind = "number" /\ v.n # 0)

\* boundVal without the clamp to the bounds
boundValUnbounded(valIn, fn, bounds, cst, constantItemSizing, d0) ==
    LET valToBound == IF valIn.kind = "array" /\ fn # U
                      THEN IF fn = "mean" THEN Num(Mean(valIn.a))
                           ELSE Num(pickFirst(valIn.a, d0))
                      ELSE valIn
    IN  IF constantItemSizing /\ TruthyVal(valToBound) /\ cst # Undef
        THEN cst ELSE valToBound

\* boundVal(attrIn, arrayToValFn, bounds, cst), valIn being the attribute's value
boundVal(valIn, fn, bounds, cst, constantItemSizing, d0) ==
    LET valToBound == IF valIn.kind = "array" /\ fn # U
                      THEN IF fn = "mean" THEN Num(Mean(valIn.a))
                           ELSE Num(pickFirst(valIn.a, d0))
                      ELSE valIn
        v          == IF constantItemSizing /\ TruthyVal(valToBound) /\ cst # Undef
                      THEN cst ELSE valToBound
    IN  IF bounds.has /\ v.kind = "number"
        THEN IF v.n < bounds.lo THEN Num(bounds.lo)
             ELSE IF v.n > bounds.hi THEN Num(bounds.hi)
             ELSE v
        ELSE v

\* subTypes.hasLines / hasMarkers / hasText: trace.visible && trace.mode &&
\* trace.mode.indexOf(..) !== -1
hasLines(trace) == trace.visible /\ trace.mode # U /\ IndexOf(trace.mode, "lines") # -1
hasMarkers(trace) == trace.visible /\ trace.mode # U /\ IndexOf(trace.mode, "markers") # -1
hasText(trace) == trace.visible /\ trace.mode # U /\ IndexOf(trace.mode, "text") # -1

\* a trace without contours
NoContours ==
    [has |-> FALSE, coloring |-> U, type |-> U, showlines |-> FALSE, operation |-> U]

\* what getStyleGuide finds to show before it looks at hidetoggle
StyleGuideOf(trace) ==
    LET contours == trace.contours
        coloring == contours.coloring
        showLine == IF contours.has /\ coloring # "lines"
                    THEN coloring \in {"none", "heatmap"} \/ contours.showlines
                    ELSE hasLines(trace)
        showFill == IF contours.has /\ contours.type = "constraint"
                    THEN contours.operation # "="
                    ELSE trace.visible /\ trace.fill # U /\ trace.fill # "none"
    IN  [showMarker       |-> hasMarkers(trace),
         showLine         |-> showLine,
         showFill         |-> showFill,
         showGradientLine |-> contours.has /\ coloring = "lines",
         showGradientFill |-> /\ contours.has /\ contours.type # "constraint"
                              /\ coloring \in {"fill", "heatmap"}]

\* a style guide that does not look at hidetoggle
getStyleGuideShowAll(trace, hidetoggle) ==
    LET g == StyleGuideOf(trace)
    IN  [showMarker |-> g.showMarker, showLine |-> g.showLine, showFill |-> g.showFill,
         showGradientLine |-> g.showGradientLine,
         showGradientFill |-> g.showGradientFill,
         anyLine |-> g.showLine \/ g.showGradientLine,
         anyFill |-> g.showFill \/ g.showGradientFill]

\* getStyleGuide(d, hidetoggle)
getStyleGuide(trace, hidetoggle) ==
    LET g == StyleGuideOf(trace)
    IN  [showMarker       |-> IF hidetoggle THEN FALSE ELSE g.showMarker,
         showLine         |-> IF hidetoggle THEN FALSE ELSE g.showLine,
         showFill         |-> IF hidetoggle THEN FALSE ELSE g.showFill,
         showGradientLine |-> IF hidetoggle THEN FALSE ELSE g.showGradientLine,
         showGradientFill |-> IF hidetoggle THEN FALSE ELSE g.showGradientFill,
         anyLine          |-> g.showLine \/ g.showGradientLine,
         anyFill          |-> g.showFill \/ g.showGradientFill]

\* The options style reads.  layoutLegend tells what gd.layout holds: "absent"
\* (no legend object), "plain" (a legend without inpixonCustomAttribute) or
\* "custom"; size, aftertext and symbolstyle are the fields of
\* inpixonCustomAttribute and are undefined unless it is there.
BoxSizeOf(cfg) == IF cfg.layoutLegend = "custom" THEN cfg.size ELSE U
AfterTextOf(cfg) == IF cfg.layoutLegend = "custom" THEN cfg.aftertext ELSE U
SymbolStyleOf(cfg) == IF cfg.layoutLegend = "custom" THEN cfg.symbolstyle ELSE U

\* the transform of 'layers' after the valign rule
ValignTransform(cfg, item) ==
    IF cfg.valign = "middle" \/ item.lineHeight = 0 \/ item.height = 0
    THEN NoTransform
    ELSE Translate(0, (IF cfg.valign = "top" THEN 1 ELSE -1)
                         * (item.lineHeight - item.height + 3))

\* box sizing that ignores the width of the legend
isBoxSizingValidAnyWidth(cfg) ==
    LET boxSizingAttribute == ParseInt(BoxSizeOf(cfg))
    IN  ~boxSizingAttribute.nan /\ boxSizingAttribute.val >= 0

\* boxSizingAttribute >= 0 && legend._width < fullLayoutWidth
isBoxSizingValid(cfg) ==
    LET boxSizingAttribute == ParseInt(BoxSizeOf(cfg))
    IN  /\ ~boxSizingAttribute.nan /\ boxSizingAttribute.val >= 0
        /\ cfg.width < cfg.fullWidth

\* the transform of 'layers' after symbol placement and box sizing
Placement(cfg, item) ==
    LET boxSizingAttribute == ParseInt(BoxSizeOf(cfg)).val
    IN  IF AfterTextOf(cfg) = "true"
        THEN Translate(2 * (cfg.width - cfg.itemwidth - 2 * cfg.itemGap)
                         - (IF isBoxSizingValid(cfg) THEN boxSizingAttribute ELSE 0), 0)
        ELSE IF isBoxSizingValid(cfg)
             THEN Translate(boxSizingAttribute, 0)
             ELSE ValignTransform(cfg, item)

\* no path of styleLines
NoLines ==
    [showLine |-> FALSE, showFill |-> FALSE, fillPath |-> FALSE, linePath |-> FALSE]

\* what styleLines shows for the item: showLine and showFill after the symbol
\* style, and whether the item gets a fill path (.legendfill path) and a line
\* path (.legendlines path), solid or gradient
styleLines(cfg, item) ==
    LET styleGuide == getStyleGuide(item.trace, cfg.hidetoggle)
        hide       == SymbolStyleOf(cfg) \in {"markers", "none"}
        showLine   == styleGuide.showLine /\ ~hide
        showFill   == styleGuide.showFill /\ ~hide
    IN  [showLine |-> showLine,
         showFill |-> showFill,
         fillPath |-> showFill \/ styleGuide.showGradientFill,
         linePath |-> showLine \/ styleGuide.showGradientLine]

\* legend.itemwidth once styleLines has run
ItemWidthAfterLines(cfg) == IF SymbolStyleOf(cfg) = "none" THEN 0 ELSE cfg.itemwidth

NoPoints ==
    [showMarker |-> FALSE, showLine |-> FALSE, showText |-> FALSE,
     mo |-> NotSet, mlw |-> NotSet, ms |-> NotSet, size |-> NotSet, lw |-> NotSet]

\* what stylePoints passes on: dEdit.mo, dEdit.mlw, dEdit.ms, tEdit.marker.size
\* and tEdit.line.width
stylePoints(cfg, item) ==
    LET styleGuide == getStyleGuide(item.trace, cfg.hidetoggle)
        showMarker == styleGuide.showMarker /\ SymbolStyleOf(cfg) \notin {"lines", "none"}
        showLine   == styleGuide.showLine
        showText   == ~showMarker /\ ~styleGuide.anyLine /\ ~styleGuide.anyFill
                        /\ hasText(item.trace)
        cst        == cfg.itemsizing = "constant"
        ms         == boundVal(item.trace.msize, "mean", Bounds(2, 16),
                               Num(CST_MARKER_SIZE), cst, item)
    IN  [showMarker |-> showMarker, showLine |-> showLine, showText |-> showText,
         mo   |-> IF showMarker
                  THEN boundVal(item.trace.mopacity, "mean", Bounds(2, 10), Undef, cst, item)
                  ELSE NotSet,
         mlw  |-> IF showMarker
                  THEN boundVal(item.trace.mlw, "mean", Bounds(0, 5),
                                Num(CST_MARKER_LINE_WIDTH), cst, item)
                  ELSE NotSet,
         ms   |-> IF showMarker THEN ms ELSE NotSet,
         size |-> IF showMarker THEN ms ELSE NotSet,
         lw   |-> IF showLine
                  THEN boundVal(item.trace.lw, "pickFirst", Bounds(0, 10),
                                Num(CST_LINE_WIDTH), cst, item)
                  ELSE NotSet]

\* trace.vertexcolor || trace.facecolor || trace.color: absent, one colour, or
\* an array of colours ('' is a colour that is not set)
NoColour == [kind |-> "undefined", c |-> U, a |-> <<>>]
Colour(c) == [kind |-> "string", c |-> c, a |-> <<>>]
Colours(a) == [kind |-> "array", c |-> U, a |-> a]

\* a colour that JavaScript takes for true
TruthyColour(c) == c # U /\ c # ""

\* the paths of ptsData and useGradient, by trace.type
SpatialGlyph(trace) ==
    IF ~trace.visible THEN [paths |-> 0, useGradient |-> U]
    ELSE CASE trace.type \in {"histogram2d", "heatmap"} -> [paths |-> 1, useGradient |-> "true"]
           [] trace.type \in {"choropleth", "choroplethmapbox"} ->
                  [paths |-> 1, useGradient |-> "true"]
           [] trace.type = "densitymapbox" -> [paths |-> 1, useGradient |-> "radial"]
           [] trace.type = "cone" -> [paths |-> 3, useGradient |-> "false"]
           [] trace.type = "streamtube" -> [paths |-> 3, useGradient |-> "false"]
           [] trace.type = "surface" -> [paths |-> 2, useGradient |-> "true"]
           [] trace.type = "mesh3d" -> [paths |-> 3, useGradient |-> "false"]
           [] trace.type = "volume" -> [paths |-> 3, useGradient |-> "true"]
           [] trace.type = "isosurface" -> [paths |-> 3, useGradient |-> "false"]
           [] OTHER -> [paths |-> 0, useGradient |-> U]

\* getGradientDirection(reversescale, isRadial)
getGradientDirection(reversescale, isRadial) ==
    (IF isRadial THEN "radial" ELSE "horizontal")
        \o (IF reversescale THEN "" ELSE "reversed")

\* color[i] || color[0] for an array, else color (i counts from 0)
ColourAt(color, i) ==
    IF color.kind = "array"
    THEN IF i < Len(color.a) /\ TruthyColour(color.a[i + 1]) THEN color.a[i + 1]
         ELSE IF Len(color.a) > 0 THEN color.a[1] ELSE U
    ELSE color.c

\* the colour of the colorscale for path i: its minimum, its maximum, its middle
ScaleColourAt(colorscale, reversescale, i) ==
    LET len == Len(colorscale)
    IN  CASE i = 0 -> colorscale[IF reversescale THEN len ELSE 1]
          [] i = 1 -> colorscale[IF reversescale THEN 1 ELSE len]
          [] OTHER -> colorscale[((len - 1) \div 2) + 1]

\* fillColor of path i; colorscale <<>> is a trace without colorscale
SpatialFillColor(trace, useGradient, i) ==
    IF trace.colorscale = <<>> THEN ColourAt(trace.color, i)
    ELSE IF useGradient = "false"
         THEN ScaleColourAt(trace.colorscale, trace.reversescale, i)
         ELSE U

\* what path i is filled with: Color.fill with fillColor, or fillGradient
SpatialFill(trace, useGradient, i) ==
    LET fillColor == SpatialFillColor(trace, useGradient, i)
    IN  IF TruthyColour(fillColor)
        THEN [call |-> "Color.fill", color |-> fillColor, direction |-> U]
        ELSE [call |-> "fillGradient", color |-> U,
              direction |-> getGradientDirection(trace.reversescale,
                                                 useGradient = "radial")]

\* no path of styleSpatial
NoSpatial == [paths |-> 0, useGradient |-> U, fills |-> <<>>]

\* styleSpatial(d): the 'legend3dandfriends' paths the item has once the
\* selection is joined with ptsData, and the fill of each
styleSpatial(cfg, item) ==
    LET g == SpatialGlyph(item.trace)
    IN  [paths       |-> g.paths,
         useGradient |-> g.useGradient,
         fills       |-> [i \in 1..g.paths |->
                            SpatialFill(item.trace, g.useGradient, i - 1)]]

\* a marker that sets nothing: trace.marker || {} of a trace without marker
NoMarker == [color |-> U, line |-> [width |-> Undef, color |-> U]]

\* trace[dir] for the three directions of a waterfall trace
DirOf(trace, dir) ==
    CASE dir = "increasing" -> trace.increasing
      [] dir = "decreasing" -> trace.decreasing
      [] dir = "totals" -> trace.totals

\* boundLineWidth(mlw, cont, max, cst); cont is the line of a marker, mlw + 1
\* is NaN for undefined and 0 for -1
boundLineWidth(mlw, cont, max, cst, constantItemSizing) ==
    LET has == mlw.kind = "number" /\ mlw.n + 1 # 0
        v   == IF has THEN mlw.n ELSE cont.width.n
    IN  IF ~has /\ ~(cont.width.kind = "number" /\ cont.width.n > 0) THEN 0
        ELSE IF constantItemSizing THEN cst ELSE Min2(v, max)

\* no bar path
NoBar == [paths |-> 0, fill |-> U, width |-> 0, stroke |-> U]

\* styleBarLike(d, lThis, desiredType) for a desiredType that is given; d0 is
\* d[0] with mc, mlw and mlc.  With 'mc' in d0, mcc is Drawing.tryColorscale of
\* the marker at its middle: not a colour for a marker without colorscale
styleBarLike(cfg, item, d0, desiredType) ==
    LET trace      == item.trace
        marker     == NoMarker
        markerLine == marker.line
        isVisible  == trace.visible /\ trace.type = desiredType
        w          == boundLineWidth(d0.mlw, marker.line, MAX_MARKER_LINE_WIDTH,
                                     CST_MARKER_LINE_WIDTH, cfg.itemsizing = "constant")
        mcc        == U
        fillColor  == IF TruthyColour(mcc) THEN mcc
                      ELSE IF TruthyColour(d0.mc) THEN d0.mc ELSE marker.color
    IN  IF ~isVisible THEN NoBar
        ELSE [paths  |-> 1,
              fill   |-> fillColor,
              width  |-> w,
              stroke |-> IF w # 0
                         THEN IF TruthyColour(d0.mlc) THEN d0.mlc ELSE markerLine.color
                         ELSE U]

\* ptsData of a legend item that always has the path of the totals
WaterfallPtsWithTotals(item) ==
    IF item.trace.visible /\ item.trace.type = "waterfall"
    THEN <<"increasing", "totals", "decreasing">>
    ELSE <<>>

\* ptsData of styleWaterfalls: the directions of the triangle paths
WaterfallPts(item) ==
    IF item.trace.visible /\ item.trace.type = "waterfall"
    THEN IF item.hasTotals THEN <<"increasing", "totals", "decreasing">>
         ELSE <<"increasing", "decreasing">>
    ELSE <<>>

\* d[0].mc, d[0].mlw and d[0].mlc of an item styleWaterfalls did not write to
NoD0 == [mc |-> U, mlw |-> Undef, mlc |-> U]

\* no path of styleWaterfalls
NoWaterfall == [d0 |-> NoD0, bar |-> NoBar, tri |-> <<>>]

\* styleWaterfalls(d): what it writes to d[0], the bar path of a distinct item
\* and the triangle paths of the others; bar and tri are the
\* 'path.legendwaterfall' elements of the item
styleWaterfalls(cfg, item) ==
    LET trace       == item.trace
        isWaterfall == trace.type = "waterfall"
    IN  IF item.distinct /\ isWaterfall
        THEN LET cont == DirOf(trace, item.dir).marker
                 d0   == [mc |-> cont.color, mlw |-> cont.line.width,
                          mlc |-> cont.line.color]
             IN  [d0 |-> d0, bar |-> styleBarLike(cfg, item, d0, "waterfall"),
                  tri |-> <<>>]
        ELSE LET ptsData == WaterfallPts(item)
             IN  [d0  |-> item.waterfall.d0,
                  bar |-> NoBar,
                  tri |-> [k \in DOMAIN ptsData |->
                             LET cont == DirOf(trace, ptsData[k]).marker
                                 lw   == boundLineWidth(Undef, cont.line,
                                            MAX_MARKER_LINE_WIDTH, CST_MARKER_LINE_WIDTH,
                                            cfg.itemsizing = "constant")
                             IN  [dir |-> ptsData[k], fill |-> cont.color, width |-> lw,
                                  stroke |-> IF lw # 0 THEN cont.line.color ELSE U]]]

\* styleSpatial reads gd.layout.legend.inpixonCustomAttribute.itemheight
StyleError(cfg) == IF cfg.layoutLegend = "custom" THEN "" ELSE "TypeError"

\* style(s, gd, legend): the first pass sets the transform of every item's
\* 'layers'; the passes that follow throw in styleSpatial, or reach styleLines
\* and stylePoints
style(cfg, items) ==
    LET placed == [i \in DOMAIN items |->
                      [items[i] EXCEPT !.layers = Placement(cfg, items[i])]]
    IN  IF StyleError(cfg) # ""
        THEN [cfg |-> cfg, items |-> placed, error |-> StyleError(cfg)]
        ELSE [cfg   |-> [cfg EXCEPT !.itemwidth = ItemWidthAfterLines(cfg)],
              items |-> [i \in DOMAIN items |->
                           [placed[i] EXCEPT !.spatial = styleSpatial(cfg, items[i]),
                                             !.waterfall = styleWaterfalls(cfg, items[i]),
                                             !.lines = styleLines(cfg, items[i]),
                                             !.pts = stylePoints(cfg, items[i])]],
              error |-> ""]

\* the options of a legend with inpixonCustomAttribute and nothing set in it
BaseLegend ==
    [layoutLegend |-> "custom", size |-> U, aftertext |-> U, symbolstyle |-> U,
     itemsizing |-> "trace", hidetoggle |-> FALSE, valign |-> "middle",
     width |-> 60, fullWidth |-> 100, itemwidth |-> 30, itemGap |-> 5]

\* a legend that holds no item yet
NoLegend ==
    [cfg |-> BaseLegend, items |-> <<>>, error |-> "", entry |-> BaseLegend,
     styled |-> FALSE]

(***************************************************************************)
(* The titles the plot draws.  Each title class is drawn from one call     *)
(* site, which fixes propName, placeholder, traceIndex and containerGroup  *)
(* (U: the title goes into fullLayout._infolayer).                         *)
(***************************************************************************)
TitleClasses ==
    {"gtitle", "xtitle", "ytitle", "polartitle", "atitle", "btitle", "ctitle",
     "cbtitle", "legendtitletext"}

PropOf(tc) ==
    CASE tc = "gtitle" -> "title.text"
      [] tc = "xtitle" -> "xaxis.title.text"
      [] tc = "ytitle" -> "yaxis.title.text"
      [] tc = "polartitle" -> "polar.radialaxis.title.text"
      [] tc = "atitle" -> "ternary.aaxis.title.text"
      [] tc = "btitle" -> "ternary.baxis.title.text"
      [] tc = "ctitle" -> "ternary.caxis.title.text"
      [] tc = "cbtitle" -> "marker.colorbar.title.text"
      [] tc = "legendtitletext" -> "legend.title.text"

PlaceholderOf(tc) ==
    CASE tc = "gtitle" -> "Enter Plot title"
      [] tc = "xtitle" -> "Enter X title"
      [] tc = "ytitle" -> "Enter Y title"
      [] tc = "cbtitle" -> "Enter scale title"
      [] tc = "legendtitletext" -> "Enter legend title"
      [] OTHER -> "Enter axis title"

TraceIndexOf(tc) == IF tc = "cbtitle" THEN "0" ELSE U

ContainerOf(tc) ==
    CASE tc = "cbtitle" -> "c-cbtitle"
      [] tc = "legendtitletext" -> "c-legendtitletext"
      [] OTHER -> U

\* group = options.containerGroup, else Lib.ensureSingle(_infolayer, 'g', 'g-' + titleClass)
GroupOf(tc) == IF ContainerOf(tc) # U THEN ContainerOf(tc) ELSE "g-" \o tc

GroupNames ==
    {GroupOf(tc) : tc \in TitleClasses} \cup {"g-xtitleboth", "g-ytitleboth"}

VARIABLES
    layout,   \* gd.layout: the axis sides, the axis titles and the custom flags
    full,     \* gd._fullLayout: the axes, the title containers, _meta, the paper
    edits,    \* gd._context.edits
    classes,  \* the title classes this plot draws
    dom,      \* the title groups: their text element and their transform
    last,     \* what the last call of draw computed and returned
    calls,    \* the Registry calls issued by the last 'edit' event
    scoot,    \* one title group under scootTitle: its inputs and its transform
    legend    \* the legend: its options, its items and what style left on them

vars == <<layout, full, edits, classes, dom, last, calls, scoot, legend>>

\* cont.title.text of the call: the axis defaults put the placeholder where
\* the user layout holds no title
ContText(tc) ==
    CASE tc = "xtitle" -> IF layout.xtitle = U THEN PlaceholderOf(tc) ELSE layout.xtitle
      [] tc = "ytitle" -> IF layout.ytitle = U THEN PlaceholderOf(tc) ELSE layout.ytitle
      [] OTHER -> full.text[tc]

NoEl ==
    [el |-> FALSE, text |-> "", cls |-> "", ph |-> FALSE, hover |-> FALSE,
     editOn |-> FALSE, editProp |-> U, editIndex |-> U]

\* el.enter().append('text')
NewEl == [NoEl EXCEPT !.el = TRUE]

\* a group: its text element e and its transform tr
NoGroup == [e |-> NoEl, tr |-> NoTransform]

\* the titles whose text the visibility block sets
Listed(tc) ==
    tc \in {"gtitle", "xtitle", "ytitle", "polartitle", "atitle", "btitle", "ctitle"}

\* the x toggles without the test of side 'both'
HideXNoBoth(lay) ==
    \/ lay.xtitletop = "false" /\ lay.xside = "top"
    \/ lay.xtitlebottom = "false" /\ lay.xside = "bottom"
    \/ lay.xside = ""

\* the conditions under which the visibility block sets the text ''
HideX(lay) ==
    \/ lay.xtitletop = "false" /\ lay.xside = "top"
    \/ lay.xtitlebottom = "false" /\ lay.xside = "bottom"
    \/ lay.xtitlebottom = "false" /\ lay.xside = "both"
    \/ lay.xside = ""

HideY(lay) ==
    \/ lay.ytitleright = "false" /\ lay.yside = "right"
    \/ lay.ytitleleft = "false" /\ lay.yside = "left"
    \/ lay.ytitleleft = "false" /\ lay.yside = "both"
    \/ lay.yside = ""

\* the polar toggles without the test of the side
HidePolarAnySide(lay) ==
    \/ lay.radartitleclockwise = "false"
    \/ lay.radartitlecounterclockwise = "false"

HidePolar(lay) ==
    \/ lay.radartitleclockwise = "false" /\ lay.polarside = "clockwise"
    \/ lay.radartitlecounterclockwise = "false" /\ lay.polarside = "counterclockwise"

\* a visibility block that shows a ternary title unless its flag is false
ShownTextUnlessFalse(tc, lay, txt) ==
    CASE tc = "gtitle" -> txt
      [] tc = "xtitle" -> IF HideX(lay) THEN "" ELSE txt
      [] tc = "ytitle" -> IF HideY(lay) THEN "" ELSE txt
      [] tc = "polartitle" -> IF HidePolar(lay) THEN "" ELSE txt
      [] tc = "atitle" -> IF lay.disableternaryatitle # "false" THEN txt ELSE ""
      [] tc = "btitle" -> IF lay.disableternarybtitle # "false" THEN txt ELSE ""
      [] tc = "ctitle" -> IF lay.disableternaryctitle # "false" THEN txt ELSE ""

\* the argument of el.text(...) in the visibility block of a listed title
ShownText(tc, lay, txt) ==
    CASE tc = "gtitle" -> txt
      [] tc = "xtitle" -> IF HideX(lay) THEN "" ELSE txt
      [] tc = "ytitle" -> IF HideY(lay) THEN "" ELSE txt
      [] tc = "polartitle" -> IF HidePolar(lay) THEN "" ELSE txt
      [] tc = "atitle" -> IF lay.disableternaryatitle = "true" THEN txt ELSE ""
      [] tc = "btitle" -> IF lay.disableternarybtitle = "true" THEN txt ELSE ""
      [] tc = "ctitle" -> IF lay.disableternaryctitle = "true" THEN txt ELSE ""

\* the text element after el.enter().append('text'), el.text(..).attr('class', ..)
\* and el.exit().remove(); a title that is not listed gets none of the last two
VisibilityBlock(e, tc, lay, txt, elShouldExist) ==
    LET entered == IF elShouldExist /\ ~e.el THEN NewEl ELSE e
    IN  IF ~Listed(tc) THEN entered
        ELSE IF elShouldExist
             THEN [entered EXCEPT !.text = ShownText(tc, lay, txt), !.cls = tc, !.ph = FALSE]
             ELSE NoEl

\* xtitleTop && xaxisSide === 'both' ? gd.layout.xaxis.title.text : ''
XBothText(lay) ==
    IF Truthy(lay.xtitletop) /\ lay.xside = "both" THEN lay.xtitle ELSE ""

YBothText(lay) ==
    IF Truthy(lay.ytitleright) /\ lay.yside = "both" THEN lay.ytitle ELSE ""

\* setPlaceholder and the handlers of an editable title, then
\* el.classed('js-placeholder', isplaceholder)
EditableBlock(e, tc, txt, editable, isplaceholder) ==
    LET e1 == IF ~editable THEN e
              ELSE [e EXCEPT !.text = IF txt = "" THEN PlaceholderOf(tc) ELSE e.text,
                             !.hover = (txt = ""),
                             !.editOn = TRUE,
                             !.editProp = PropOf(tc),
                             !.editIndex = TraceIndexOf(tc)]
    IN  [e1 EXCEPT !.ph = (isplaceholder \/ (editable /\ txt = ""))]

\* why the secondary x title block throws, "" when it does not
XBlockError(tc, lay, fl) ==
    CASE fl.xax = "absent" -> "TypeError"            \* ax._id of undefined
      [] fl.xax = "standoff" -> "ReferenceError"     \* approxTitleDepth is not defined
      [] ContainerOf(tc) # U -> "TypeError"          \* group_xboth is undefined
      [] Truthy(lay.xtitletop) /\ lay.xside = "both" /\ lay.xtitle = U -> "TypeError"
      [] OTHER -> ""

YBlockError(tc, lay, fl) ==
    CASE fl.yax = "absent" -> "TypeError"
      [] fl.yax = "standoff" -> "ReferenceError"
      [] ContainerOf(tc) # U -> "TypeError"
      [] Truthy(lay.ytitleright) /\ lay.yside = "both" /\ lay.ytitle = U -> "TypeError"
      [] OTHER -> ""

\* the block has reached xtitle_both.enter().append("text")
BothAppends(tc, ax) == ax = "plain" /\ ContainerOf(tc) = U

XBlockRuns(lay) == lay.xside \in {"both", "bottom", "top"}
YBlockRuns(lay) == lay.yside \in {"both", "left", "right"}

(***************************************************************************)
(* draw(gd, titleClass, options).  avoid is options.avoid; geo gives the   *)
(* boxes Drawing.bBox measures for the title group and the two secondary   *)
(* groups.  The result is the DOM the call leaves and the record of what   *)
(* it computed; ret is U and error names the exception when it throws.     *)
(* The steps are chained in the order of the code: each takes the DOM d    *)
(* the previous one left.                                                  *)
(***************************************************************************)
\* the variables draw computes before it touches the DOM (p in the steps below)
Prelude(tc) ==
    LET editable == EditableOf(PropOf(tc), edits)
        c        == Classify(TitleTxt(ContText(tc)), PlaceholderOf(tc), editable)
        txt      == IF full.meta.has THEN TemplateString(c.txt, full.meta.map) ELSE c.txt
    IN  [cls |-> tc, group |-> GroupOf(tc), editable |-> editable,
         raw |-> TitleTxt(ContText(tc)), txt |-> txt,
         elShouldExist |-> (txt # "" \/ editable),
         opacity |-> c.opacity, isplaceholder |-> c.isplaceholder,
         ret |-> GroupOf(tc), error |-> "", exit |-> "early"]

\* el.enter(), the visibility block, el.exit()
ElementStep(d, tc, p) ==
    [d EXCEPT ![p.group].e = VisibilityBlock(@, tc, layout, p.txt, p.elShouldExist)]

\* el.call(titleLayout): drawTitle, then scootTitle on the title group
LayoutStep(d, p, avoid, geo) ==
    [d EXCEPT ![p.group].tr = scootTitle(avoid, p.txt, geo.title, full.width, full.height, @)]

\* the secondary x title, up to the point where it throws if it does
XBothStep(d, tc, p, avoid, geo) ==
    IF ~XBlockRuns(layout) THEN d
    ELSE IF XBlockError(tc, layout, full) # ""
         THEN IF BothAppends(tc, full.xax) /\ ~d["g-xtitleboth"].e.el
              THEN [d EXCEPT !["g-xtitleboth"].e = NewEl]
              ELSE d
         ELSE [d EXCEPT !["g-xtitleboth"] =
                 [e  |-> [(IF @.e.el THEN @.e ELSE NewEl) EXCEPT !.text = XBothText(layout)],
                  tr |-> XBothTransform(avoid, p.txt, geo.xboth, layout.xside, @.tr)]]

\* the secondary y title
YBothStep(d, tc, p, avoid, geo) ==
    IF ~YBlockRuns(layout) THEN d
    ELSE IF YBlockError(tc, layout, full) # ""
         THEN IF BothAppends(tc, full.yax) /\ ~d["g-ytitleboth"].e.el
              THEN [d EXCEPT !["g-ytitleboth"].e = NewEl]
              ELSE d
         ELSE [d EXCEPT !["g-ytitleboth"] =
                 [e  |-> [(IF @.e.el THEN @.e ELSE NewEl) EXCEPT !.text = YBothText(layout)],
                  tr |-> YBothTransform(avoid, p.txt, geo.yboth, @.tr)]]

\* if(editable) {...}; el.classed('js-placeholder', isplaceholder); return group
EditableStep(d, tc, p) ==
    [dom  |-> [d EXCEPT ![p.group].e =
                  EditableBlock(@, tc, p.txt, p.editable, p.isplaceholder)],
     last |-> [p EXCEPT !.isplaceholder = (p.isplaceholder \/ (p.editable /\ p.txt = "")),
                        !.exit = "end"]]

Thrown(d, p, err) ==
    [dom |-> d, last |-> [p EXCEPT !.ret = U, !.error = err, !.exit = "throws"]]

DrawFromY(d, tc, p, avoid, geo) ==
    IF YBlockRuns(layout) /\ YBlockError(tc, layout, full) # ""
    THEN Thrown(YBothStep(d, tc, p, avoid, geo), p, YBlockError(tc, layout, full))
    ELSE EditableStep(YBothStep(d, tc, p, avoid, geo), tc, p)

DrawFromX(d, tc, p, avoid, geo) ==
    IF XBlockRuns(layout) /\ XBlockError(tc, layout, full) # ""
    THEN Thrown(XBothStep(d, tc, p, avoid, geo), p, XBlockError(tc, layout, full))
    ELSE DrawFromY(XBothStep(d, tc, p, avoid, geo), tc, p, avoid, geo)

DrawFrom(tc, p, avoid, geo) ==
    IF ~p.elShouldExist
    THEN [dom |-> ElementStep(dom, tc, p), last |-> p]
    ELSE DrawFromX(LayoutStep(ElementStep(dom, tc, p), p, avoid, geo), tc, p, avoid, geo)

DrawOutcome(tc, avoid, geo) == DrawFrom(tc, Prelude(tc), avoid, geo)

(***************************************************************************)
(* The plots explored.  Every plot is a cartesian or a bare frame; the     *)
(* layouts vary one axis at a time, the other axis keeping its default.    *)
(***************************************************************************)
PaperW == 20
PaperH == 20

Box(l, r, t, b) == [left |-> l, right |-> r, top |-> t, bottom |-> b]

NoAvoid ==
    [has |-> FALSE, side |-> U, pad |-> -1, maxShift |-> 0,
     offsetLeft |-> 0, offsetTop |-> 0, sel |-> {}]

\* the boxes the browser measures in the explored plots
Rendering ==
    [title |-> Box(8, 12, 14, 16), xboth |-> Box(8, 12, 1, 3), yboth |-> Box(17, 19, 8, 12)]

\* options.avoid of the call sites: the axis titles avoid the tick labels
AvoidOf(tc) ==
    CASE tc = "xtitle" -> [NoAvoid EXCEPT !.has = TRUE, !.side = "bottom",
                                          !.sel = {Box(2, 18, 12, 15)}]
      [] tc = "ytitle" -> [NoAvoid EXCEPT !.has = TRUE, !.side = "left",
                                          !.sel = {Box(4, 9, 2, 18)}]
      [] OTHER -> NoAvoid

Flags == {U, "true", "false"}
XSides == {"", "top", "bottom", "both", "left"}
YSides == {"", "left", "right", "both", "top"}
RelayoutTexts == {"", "A "}
AxisTexts(tc) == {U, "", "A ", IF tc = "xtitle" THEN "Enter X2 title" ELSE "Enter Y2 title"}

BaseLayout ==
    [xside |-> "bottom", yside |-> "left", xtitle |-> "A ", ytitle |-> "B",
     xtitletop |-> U, xtitlebottom |-> U, ytitleleft |-> U, ytitleright |-> U,
     polarside |-> U, radartitleclockwise |-> U, radartitlecounterclockwise |-> U,
     disableternaryatitle |-> U, disableternarybtitle |-> U, disableternaryctitle |-> U]

NoMeta == [has |-> FALSE, map |-> [k \in {} |-> ""]]

BaseFull ==
    [xax |-> "plain", yax |-> "plain", width |-> PaperW, height |-> PaperH,
     meta |-> NoMeta,
     text |-> [tc \in TitleClasses |-> IF tc = "gtitle" THEN "G" ELSE "C"]]

EditKeys == {"titleText", "axisTitleText", "colorbarTitleText"}
NoEdits == [k \in EditKeys |-> FALSE]

XLayouts ==
    {[BaseLayout EXCEPT !.xside = s, !.xtitle = t, !.xtitletop = a, !.xtitlebottom = b]
       : s \in XSides, t \in AxisTexts("xtitle"), a \in Flags, b \in Flags}

YLayouts ==
    {[BaseLayout EXCEPT !.yside = s, !.ytitle = t, !.ytitleright = a, !.ytitleleft = b]
       : s \in YSides, t \in AxisTexts("ytitle"), a \in Flags, b \in Flags}

InitX ==
    /\ layout \in XLayouts
    /\ full = BaseFull
    /\ edits \in {NoEdits, [NoEdits EXCEPT !.axisTitleText = TRUE]}
    /\ classes = {"xtitle", "gtitle"}

InitY ==
    /\ layout \in YLayouts
    /\ full = BaseFull
    /\ edits \in {NoEdits, [NoEdits EXCEPT !.axisTitleText = TRUE]}
    /\ classes = {"ytitle", "gtitle"}

TitleTexts(tc) == {U, " ", "T", "%{m}", PlaceholderOf(tc)}
Metas == {NoMeta, [has |-> TRUE, map |-> [k \in {"m"} |-> "M"]],
          [has |-> TRUE, map |-> [k \in {"n"} |-> "N"]]}

\* the plot title, a colorbar title and the legend title
InitTitles ==
    /\ layout \in {BaseLayout, [BaseLayout EXCEPT !.xside = U, !.yside = U]}
    /\ \E g \in TitleTexts("gtitle"), cb \in {U, "T", PlaceholderOf("cbtitle")},
          lg \in {"", "L"}, m \in Metas :
          full = [BaseFull EXCEPT !.meta = m,
                    !.text = [tc \in TitleClasses |->
                                 CASE tc = "gtitle" -> g
                                   [] tc = "cbtitle" -> cb
                                   [] OTHER -> lg]]
    /\ edits \in [EditKeys -> BOOLEAN]
    /\ classes = {"gtitle", "cbtitle", "legendtitletext"}

\* plots without cartesian axes, and axes whose title has a standoff
InitFrame ==
    /\ layout \in {[BaseLayout EXCEPT !.xside = xs, !.yside = ys]
                     : xs \in {U, "bottom", "both"}, ys \in {U, "left"}}
    /\ \E ax \in {"absent", "standoff"}, g \in {"", "G"} :
          full = [BaseFull EXCEPT !.xax = ax, !.yax = ax, !.text["gtitle"] = g]
    /\ edits \in {NoEdits, [tc \in EditKeys |-> TRUE]}
    /\ classes = {"gtitle"}

\* the titles of the three axes of a ternary plot
InitTernary ==
    /\ layout \in {[BaseLayout EXCEPT !.xside = U, !.yside = U,
                        !.disableternaryatitle = a, !.disableternarybtitle = b,
                        !.disableternaryctitle = c]
                     : a \in Flags, b \in Flags, c \in Flags}
    /\ \E t \in {U, "", "T", "Enter axis title"} :
          full = [BaseFull EXCEPT !.xax = "absent", !.yax = "absent",
                    !.text = [tc \in TitleClasses |-> t]]
    /\ edits \in {NoEdits, [NoEdits EXCEPT !.axisTitleText = TRUE]}
    /\ classes = {"atitle", "btitle", "ctitle"}

PolarSides == {U, "clockwise", "counterclockwise"}

\* the title of the radial axis of a polar plot
InitPolar ==
    /\ layout \in {[BaseLayout EXCEPT !.xside = U, !.yside = U, !.polarside = sd,
                        !.radartitleclockwise = cw, !.radartitlecounterclockwise = ccw]
                     : sd \in PolarSides, cw \in Flags, ccw \in Flags}
    /\ \E t \in {U, "", "T", "Enter axis title"} :
          full = [BaseFull EXCEPT !.xax = "absent", !.yax = "absent",
                    !.text = [tc \in TitleClasses |-> t]]
    /\ edits \in {NoEdits, [NoEdits EXCEPT !.axisTitleText = TRUE]}
    /\ classes = {"polartitle"}

NoCall ==
    [cls |-> U, group |-> U, editable |-> FALSE, raw |-> "", txt |-> "",
     elShouldExist |-> FALSE, opacity |-> OpacityFull, isplaceholder |-> FALSE,
     ret |-> U, error |-> "", exit |-> U]

NoCalls == [on |-> U, issued |-> <<>>]

\* no title group is followed on its own
NoScoot ==
    [avoid |-> NoAvoid, txt |-> "", bb |-> Box(0, 0, 0, 0), tr |-> NoTransform,
     ran |-> FALSE]

Init ==
    /\ InitX \/ InitY \/ InitTitles \/ InitFrame \/ InitTernary \/ InitPolar
    /\ dom = [g \in GroupNames |-> NoGroup]
    /\ last = NoCall
    /\ calls = NoCalls
    /\ scoot = NoScoot
    /\ legend = NoLegend

\* one call of draw, for any title of the plot
Draw ==
    \E tc \in classes :
        LET out == DrawOutcome(tc, AvoidOf(tc), Rendering)
        IN  /\ dom' = out.dom
            /\ last' = out.last
            /\ calls' = NoCalls
            /\ UNCHANGED <<layout, full, edits, classes, scoot, legend>>

\* a listener that tests traceIndex for truthiness
EditListenerTruthy(e, text) ==
    IF e.editIndex \notin {U, "0"}
    THEN <<[fn |-> "_guiRestyle", prop |-> e.editProp, text |-> text,
            traceIndex |-> e.editIndex]>>
    ELSE <<[fn |-> "_guiRelayout", prop |-> e.editProp, text |-> text,
            traceIndex |-> U]>>

\* the 'edit' listener of the text element e, called with the edited text
EditListener(e, text) ==
    IF e.editIndex # U
    THEN <<[fn |-> "_guiRestyle", prop |-> e.editProp, text |-> text,
            traceIndex |-> e.editIndex]>>
    ELSE <<[fn |-> "_guiRelayout", prop |-> e.editProp, text |-> text,
            traceIndex |-> U]>>

\* an 'edit' event on a title that draw made editable; calls keeps the group of
\* the title and the Registry calls the event issued
Edit ==
    \E g \in GroupNames, text \in {"N"} :
        /\ dom[g].e.el /\ dom[g].e.editOn
        /\ calls' = [on |-> g, issued |-> EditListener(dom[g].e, text)]
        /\ UNCHANGED <<layout, full, edits, classes, dom, last, scoot, legend>>

\* the layout of the drawn axis changes between two draws: its side or its
\* title; what the last draw returned is no longer about this layout
Relayout ==
    \/ /\ "xtitle" \in classes
       /\ \E s \in XSides, t \in RelayoutTexts \cup {layout.xtitle} :
             /\ (s = layout.xside) # (t = layout.xtitle)
             /\ layout' = [layout EXCEPT !.xside = s, !.xtitle = t]
       /\ last' = NoCall
       /\ UNCHANGED <<full, edits, classes, dom, calls, scoot, legend>>
    \/ /\ "ytitle" \in classes
       /\ \E s \in YSides, t \in RelayoutTexts \cup {layout.ytitle} :
             /\ (s = layout.yside) # (t = layout.ytitle)
             /\ layout' = [layout EXCEPT !.yside = s, !.ytitle = t]
       /\ last' = NoCall
       /\ UNCHANGED <<full, edits, classes, dom, calls, scoot, legend>>

Next == Draw \/ Edit \/ Relayout

Spec == Init /\ [][Next]_vars

(***************************************************************************)
(* scootTitle on its own: one title group, the box Drawing.bBox measures   *)
(* for it, and an avoid option drawn from the sets below.                  *)
(***************************************************************************)
MaxAvoided == 2

\* the boxes of the title group: inside the paper, and beyond each of its edges
TitleBoxes ==
    {Box(8, 12, 14, 16), Box(8, 12, PaperH - 1, PaperH + 2), Box(-2, 3, 8, 10),
     Box(PaperW - 2, PaperW + 3, -1, 2)}

\* the boxes of the elements a call may avoid
AvoidedBoxes ==
    {Box(2, 18, 12, 15), Box(10, 14, 17, 19), Box(4, 9, 2, 18), Box(1, 3, 13, 17),
     Box(13, 17, 15, 16), Box(9, 11, 10, 12)}

Selections == {S \in SUBSET AvoidedBoxes : Cardinality(S) <= MaxAvoided}

Avoids ==
    {[has |-> h, side |-> sd, pad |-> pd, maxShift |-> ms,
      offsetLeft |-> off[1], offsetTop |-> off[2], sel |-> S]
       : h \in BOOLEAN, sd \in Sides \cup {U}, pd \in {-1, 0, 1}, ms \in {0, 3},
         off \in {<<0, 0>>, <<1, 2>>}, S \in Selections}

InitScoot ==
    /\ layout = BaseLayout
    /\ full = BaseFull
    /\ edits = NoEdits
    /\ classes = {}
    /\ dom = [g \in GroupNames |-> NoGroup]
    /\ last = NoCall
    /\ calls = NoCalls
    /\ \E a \in Avoids, t \in {"", "A"}, bb \in TitleBoxes :
          scoot = [avoid |-> a, txt |-> t, bb |-> bb, tr |-> NoTransform, ran |-> FALSE]
    /\ legend = NoLegend

\* el.call(titleLayout) reaches scootTitle
Scoot ==
    /\ ~scoot.ran
    /\ scoot' = [scoot EXCEPT
                   !.tr = scootTitle(scoot.avoid, scoot.txt, scoot.bb,
                                     full.width, full.height, @),
                   !.ran = TRUE]
    /\ UNCHANGED <<layout, full, edits, classes, dom, last, calls, legend>>

\* the plot is drawn again with other elements to avoid
Rerender ==
    /\ scoot.ran
    /\ \E S \in Selections :
          /\ S # scoot.avoid.sel
          /\ Cardinality(S) <= 1
          /\ scoot' = [scoot EXCEPT !.avoid.sel = S, !.ran = FALSE]
    /\ UNCHANGED <<layout, full, edits, classes, dom, last, calls, legend>>

NextScoot == Scoot \/ Rerender

SpecScoot == InitScoot /\ [][NextScoot]_vars

(***************************************************************************)
(* The legend style pass on its own.                                       *)
(***************************************************************************)
MaxItems == 2

ScatterTrace ==
    [type |-> "scatter", visible |-> TRUE, mode |-> "markers", fill |-> U,
     contours |-> NoContours, colorscale |-> <<>>, reversescale |-> FALSE,
     color |-> NoColour, increasing |-> [marker |-> NoMarker],
     decreasing |-> [marker |-> NoMarker], totals |-> [marker |-> NoMarker], msize |-> Num(6), mopacity |-> Num(10),
     mlw |-> Num(0), lw |-> Num(2)]

NewItem(lineHeight, height, trace, distinct, index) ==
    [lineHeight |-> lineHeight, height |-> height, trace |-> trace,
     distinct |-> distinct, index |-> index, dir |-> U, hasTotals |-> FALSE,
     layers |-> NoTransform, spatial |-> NoSpatial, waterfall |-> NoWaterfall,
     lines |-> NoLines,
     pts |-> NoPoints]

\* String(boxsizing.size) for the sizes explored
BoxSizes == {U, "12", "12px", " 7", "-3", "abc", "0"}

\* symbolplacement.aftertext: true, false, undefined and the text 'true'
AfterTexts == {U, "true", "false", "'true'"}

SymbolStyles == {U, "markers", "lines", "none"}

ItemLists ==
    UNION {[1..n -> {NewItem(h[1], h[2], ScatterTrace, FALSE, 0)
                       : h \in {<<0, 0>>, <<15, 19>>, <<15, 30>>}}]
             : n \in 1..MaxItems}

\* legends that differ in placement, box sizing and valign
InitPlacement ==
    \E kind \in {"absent", "plain", "custom"}, sz \in BoxSizes, at \in AfterTexts,
       va \in {"top", "middle", "bottom"}, w \in {60, 100}, gap \in {3, 5},
       its \in ItemLists :
        /\ kind # "custom" => (sz = U /\ at = U)
        /\ legend = [NoLegend EXCEPT
                       !.cfg = [BaseLegend EXCEPT !.layoutLegend = kind, !.size = sz,
                                                  !.aftertext = at, !.valign = va,
                                                  !.width = w, !.itemGap = gap],
                       !.items = its]

MarkerSizes == {Undef, Num(0), Num(8), Num(30), Arr(<<4, 8>>)}
MarkerOpacities == {Undef, Num(1), Num(5), Arr(<<0, 2>>)}
MarkerLineWidths == {Undef, Num(0), Num(8)}
LineWidths == {Undef, Num(0), Num(3), Num(15), Arr(<<15, 3>>)}
Modes == {"lines", "markers", "lines+markers", "text"}

\* legends that differ in the trace of their item and in the glyph options
InitGlyphs ==
    \E md \in Modes, ms \in MarkerSizes, mo \in MarkerOpacities,
       mlw \in MarkerLineWidths, lw \in LineWidths, sizing \in {"trace", "constant"},
       ht \in BOOLEAN, st \in SymbolStyles, di \in {<<FALSE, 0>>, <<TRUE, 1>>} :
        legend = [NoLegend EXCEPT
                    !.cfg = [BaseLegend EXCEPT !.itemsizing = sizing, !.hidetoggle = ht,
                                               !.symbolstyle = st],
                    !.items = <<NewItem(15, 19,
                                        [ScatterTrace EXCEPT !.mode = md, !.msize = ms,
                                            !.mopacity = mo, !.mlw = mlw, !.lw = lw],
                                        di[1], di[2])>>]

\* trace.contours of the contour traces explored
ContourOptions ==
    {[has |-> TRUE, coloring |-> c, type |-> t, showlines |-> sl, operation |-> op]
       : c \in {"fill", "heatmap", "lines", "none"}, t \in {"levels", "constraint"},
         sl \in BOOLEAN, op \in {"=", "<"}}

\* contour traces, and scatter traces with and without an area fill
LineTraces ==
    {[ScatterTrace EXCEPT !.type = "contour", !.mode = U, !.contours = c, !.visible = v]
       : c \in ContourOptions, v \in BOOLEAN}
    \cup {[ScatterTrace EXCEPT !.mode = md, !.fill = f, !.visible = v]
            : md \in {"lines", "markers"}, f \in {U, "none", "tozeroy"}, v \in BOOLEAN}

\* legends that differ in what styleLines has to draw
InitLines ==
    \E tr \in LineTraces, ht \in BOOLEAN, st \in SymbolStyles :
        legend = [NoLegend EXCEPT
                    !.cfg = [BaseLegend EXCEPT !.hidetoggle = ht, !.symbolstyle = st],
                    !.items = <<NewItem(15, 19, tr, FALSE, 0)>>]

SpatialTypes ==
    {"histogram2d", "heatmap", "choropleth", "choroplethmapbox", "densitymapbox",
     "cone", "streamtube", "surface", "mesh3d", "volume", "isosurface"}

TraceColours == {NoColour, Colour("red"), Colours(<<>>), Colours(<<"", "blue">>)}

\* legends of one trace with z or a colorscale, and of traces of another type
InitSpatial ==
    \E ty \in SpatialTypes \cup {"scatter", "bar"}, v \in BOOLEAN,
       cs \in {<<>>, <<"c1", "c2", "c3", "c4">>}, rv \in BOOLEAN, co \in TraceColours :
        legend = [NoLegend EXCEPT
                    !.items = <<NewItem(15, 19,
                                        [ScatterTrace EXCEPT !.type = ty, !.visible = v,
                                            !.mode = U, !.colorscale = cs,
                                            !.reversescale = rv, !.color = co],
                                        FALSE, 0)>>]

\* a waterfall trace whose increasing marker has a line of width w
WaterfallTrace(ty, v, w) ==
    [ScatterTrace EXCEPT
       !.type = ty, !.visible = v, !.mode = U,
       !.increasing = [marker |-> [color |-> "green",
                                   line |-> [width |-> w, color |-> "darkgreen"]]],
       !.decreasing = [marker |-> [color |-> "red",
                                   line |-> [width |-> Num(1), color |-> "darkred"]]],
       !.totals = [marker |-> [color |-> "blue",
                               line |-> [width |-> Num(0), color |-> "darkblue"]]]]

\* legends of one waterfall trace, or of one funnel trace: an item of the whole
\* trace, or an item of one direction of it (_distinct)
InitWaterfall ==
    \E ty \in {"waterfall", "funnel"}, v \in BOOLEAN, w \in {Num(0), Num(2), Num(8)},
       di \in {U, "increasing", "decreasing", "totals"}, ht \in BOOLEAN,
       sizing \in {"trace", "constant"} :
        legend = [NoLegend EXCEPT
                    !.cfg = [BaseLegend EXCEPT !.itemsizing = sizing],
                    !.items = <<[NewItem(15, 19, WaterfallTrace(ty, v, w), di # U, 0)
                                   EXCEPT !.dir = di, !.hasTotals = ht]>>]

InitLegend ==
    /\ layout = BaseLayout
    /\ full = BaseFull
    /\ edits = NoEdits
    /\ classes = {}
    /\ dom = [g \in GroupNames |-> NoGroup]
    /\ last = NoCall
    /\ calls = NoCalls
    /\ scoot = NoScoot
    /\ InitPlacement \/ InitGlyphs \/ InitLines \/ InitSpatial \/ InitWaterfall

\* one call of style on the items of the legend; entry keeps the options the
\* call started with
Style ==
    /\ ~legend.styled
    /\ LET out == style(legend.cfg, legend.items)
       IN  legend' = [cfg |-> out.cfg, items |-> out.items, error |-> out.error,
                      entry |-> legend.cfg, styled |-> TRUE]
    /\ UNCHANGED <<layout, full, edits, classes, dom, last, calls, scoot>>

\* the symbol style of the layout changes between two draws
RelayoutLegend ==
    /\ legend.styled
    /\ legend.cfg.layoutLegend = "custom"
    /\ \E st \in SymbolStyles :
          /\ st # legend.cfg.symbolstyle
          /\ legend' = [legend EXCEPT !.cfg.symbolstyle = st, !.styled = FALSE]
    /\ UNCHANGED <<layout, full, edits, classes, dom, last, calls, scoot>>

\* a trace that is not a scatter or contour trace is hidden or shown again
\* between two draws
ToggleVisible ==
    /\ legend.styled
    /\ legend.cfg.layoutLegend = "custom"
    /\ \E i \in DOMAIN legend.items :
          /\ legend.items[i].trace.type \notin {"scatter", "contour"}
          /\ legend' = [legend EXCEPT
                          !.items[i].trace.visible = ~legend.items[i].trace.visible,
                          !.styled = FALSE]
    /\ UNCHANGED <<layout, full, edits, classes, dom, last, calls, scoot>>

NextLegend == Style \/ RelayoutLegend \/ ToggleVisible

SpecLegend == InitLegend /\ [][NextLegend]_vars

(***************************************************************************)
(* Claims about Titles.draw, checked under Spec.                           *)
(***************************************************************************)
ClassOfGroup(g) == CHOOSE tc \in TitleClasses : GroupOf(tc) = g

\* C1: every call of draw returns normally, with the title's container group:
\* options.containerGroup when supplied, else the group g-<titleClass> of the
\* info layer.
C1_DrawReturnsGroup ==
    last.cls # U =>
        /\ last.error = ""
        /\ last.ret = IF ContainerOf(last.cls) # U THEN ContainerOf(last.cls)
                      ELSE "g-" \o last.cls

\* C2: a title is editable only if its property is positively identified:
\* 'title.text' with edits.titleText, a property containing 'axis' with
\* edits.axisTitleText, a property containing 'colorbar' with
\* edits.colorbarTitleText.
C2_EditableOnlyIfIdentified ==
    (last.cls # U /\ last.editable) =>
        LET prop == PropOf(last.cls)
        IN  \/ prop = "title.text" /\ edits.titleText
            \/ IndexOf(prop, "axis") # -1 /\ edits.axisTitleText
            \/ IndexOf(prop, "colorbar") # -1 /\ edits.colorbarTitleText

\* the visibility toggles as the claim states them
C3_HiddenX ==
    \/ layout.xtitletop = "false" /\ layout.xside = "top"
    \/ layout.xtitlebottom = "false" /\ layout.xside \in {"bottom", "both"}
    \/ layout.xside = ""

C3_HiddenY ==
    \/ layout.ytitleright = "false" /\ layout.yside = "right"
    \/ layout.ytitleleft = "false" /\ layout.yside \in {"left", "both"}
    \/ layout.yside = ""

C3_AxisDrawn ==
    /\ last.cls \in {"xtitle", "ytitle"}
    /\ dom[last.group].e.el

C3_Hidden == IF last.cls = "xtitle" THEN C3_HiddenX ELSE C3_HiddenY

\* C3 as stated: after draw of xtitle (ytitle) the text of the text element is ''
\* exactly when the toggles hide the title, and the title text txt otherwise.
C3_TextEmptyExactlyWhenHidden ==
    C3_AxisDrawn =>
        /\ (dom[last.group].e.text = "") <=> C3_Hidden
        /\ ~C3_Hidden => dom[last.group].e.text = last.txt

\* C3 amended: when the title text txt is not empty, the text of the element is
\* '' exactly when the toggles hide the title, and txt otherwise; a flag that is
\* undefined hides nothing.  When txt is empty the element exists only for an
\* editable title, and a call that reaches its end leaves the placeholder text
\* in it whatever the toggles are.
C3_TextOfNonEmptyTitle ==
    C3_AxisDrawn =>
        IF last.txt # ""
        THEN /\ (dom[last.group].e.text = "") <=> C3_Hidden
             /\ ~C3_Hidden => dom[last.group].e.text = last.txt
        ELSE /\ last.editable
             /\ last.exit = "end" => dom[last.group].e.text = PlaceholderOf(last.cls)

C3_Witness ==
    /\ C3_AxisDrawn /\ last.txt # ""
    /\ last.cls = "xtitle"
    /\ layout.xside = "both" /\ layout.xtitlebottom = "false"
    /\ dom[last.group].e.text = ""

\* the texts that count as the title text of an axis: the text of the layout,
\* and what the main title shows of it ('' for a placeholder that draw blanks)
C4_TitleTexts(tc, text) ==
    IF text = U THEN {""}
    ELSE {TitleTxt(text),
          Classify(TitleTxt(text), PlaceholderOf(tc), EditableOf(PropOf(tc), edits)).txt}

\* C4: after every call of draw the secondary x title (group g-xtitleboth)
\* carries the x-axis title text iff layout.xaxis.side is 'both' and xtitletop is
\* truthy, and empty text otherwise; likewise the secondary y title with
\* ytitleright.  No stale text survives a redraw.
C4_SecondaryTitleTracksLayout ==
    last.cls # U =>
        /\ IF layout.xside = "both" /\ layout.xtitletop = "true"
           THEN Trim(dom["g-xtitleboth"].e.text) \in C4_TitleTexts("xtitle", layout.xtitle)
           ELSE dom["g-xtitleboth"].e.text = ""
        /\ IF layout.yside = "both" /\ layout.ytitleright = "true"
           THEN Trim(dom["g-ytitleboth"].e.text) \in C4_TitleTexts("ytitle", layout.ytitle)
           ELSE dom["g-ytitleboth"].e.text = ""

\* C7: an 'edit' event of an editable title issues exactly one update:
\* _guiRestyle with the trace index when options.traceIndex is defined (0
\* included), else _guiRelayout; a title that is not editable issues none.
C7_EditIssuesOneUpdate ==
    calls.on # U =>
        LET tc == ClassOfGroup(calls.on)
        IN  /\ EditableOf(PropOf(tc), edits)
            /\ Len(calls.issued) = 1
            /\ calls.issued[1].prop = PropOf(tc)
            /\ calls.issued[1].text = "N"
            /\ IF TraceIndexOf(tc) # U
               THEN /\ calls.issued[1].fn = "_guiRestyle"
                    /\ calls.issued[1].traceIndex = TraceIndexOf(tc)
               ELSE calls.issued[1].fn = "_guiRelayout"

C7_Witness ==
    /\ calls.on = "c-cbtitle"
    /\ calls.issued[1].fn = "_guiRestyle"
    /\ calls.issued[1].traceIndex = "0"

\* C10: the opacity draw uses is 0 for an empty trimmed title text; 0.2, with
\* the placeholder flag set and the text blanked unless editable, for a text
\* that equals the placeholder once the first ' X<digits> ' / ' Y<digits> ' of
\* both is replaced by ' % '; and 1 otherwise, the placeholder flag then being
\* set only for an editable title whose text is empty.  A call that reaches
\* its end leaves the class js-placeholder equal to the flag.
C10_MatchesPlaceholder ==
    NumStrip(last.raw) = NumStrip(PlaceholderOf(last.cls))

C10_OpacityAndPlaceholder ==
    last.cls # U =>
        /\ last.raw = "" => last.opacity = 0
        /\ (last.raw # "" /\ C10_MatchesPlaceholder) =>
              /\ last.opacity = 2
              /\ last.isplaceholder
              /\ ~last.editable => last.txt = ""
        /\ (last.raw # "" /\ ~C10_MatchesPlaceholder) =>
              /\ last.opacity = 10
              /\ last.isplaceholder => (last.editable /\ last.txt = "")
        /\ last.exit = "end" => dom[last.group].e.ph = last.isplaceholder

C10_Witness ==
    /\ last.cls = "xtitle"
    /\ last.raw = "Enter X2 title"
    /\ last.opacity = 2 /\ last.isplaceholder
    /\ ~last.editable /\ last.txt = ""

(***************************************************************************)
(* Claims about scootTitle, checked under SpecScoot.                       *)
(***************************************************************************)
\* scootTitle has run with avoid.selection, avoid.side and a non-empty text
ScootApplied ==
    /\ scoot.ran
    /\ scoot.avoid.has /\ scoot.avoid.side # U /\ scoot.txt # ""

\* how far the transform of the group moves it toward avoid.side
C5_Toward ==
    CASE scoot.avoid.side = "left" -> -scoot.tr[1]
      [] scoot.avoid.side = "right" -> scoot.tr[1]
      [] scoot.avoid.side = "top" -> -scoot.tr[2]
      [] scoot.avoid.side = "bottom" -> scoot.tr[2]

\* from the avoid.side edge of the title box to the paper edge on that side,
\* negative when the box lies beyond the paper
C5_Distance ==
    CASE scoot.avoid.side = "left" -> scoot.bb.left
      [] scoot.avoid.side = "right" -> full.width - scoot.bb.right
      [] scoot.avoid.side = "top" -> scoot.bb.top
      [] scoot.avoid.side = "bottom" -> full.height - scoot.bb.bottom

\* C5: with avoid.maxShift not set, the shift toward avoid.side is between 0 and
\* the distance from the title box's edge to the paper edge; a title box that
\* lies beyond the paper edge is moved back by exactly that excess, so that its
\* edge sits on the paper edge.  The group is not moved across the side.
C5_TitleStaysOnPaper ==
    (ScootApplied /\ scoot.avoid.maxShift = 0) =>
        /\ IF C5_Distance >= 0
           THEN 0 <= C5_Toward /\ C5_Toward <= C5_Distance
           ELSE C5_Toward = C5_Distance
        /\ IF scoot.avoid.side \in {"left", "right"}
           THEN scoot.tr[2] = 0
           ELSE scoot.tr[1] = 0

\* the avoided elements ask for more than the paper leaves: the shift is capped
C5_Witness ==
    /\ ScootApplied /\ scoot.avoid.maxShift = 0
    /\ C5_Distance > 0
    /\ RawShift(scoot.avoid, scoot.bb) > C5_Distance
    /\ C5_Toward = C5_Distance

\* the title box, with the opposite of the avoid offsets, as the transform of
\* the group displaces it
C6_Displaced ==
    LET tb == OffsetBB(scoot.avoid, scoot.bb)
    IN  [left |-> tb.left + scoot.tr[1], right |-> tb.right + scoot.tr[1],
         top |-> tb.top + scoot.tr[2], bottom |-> tb.bottom + scoot.tr[2]]

\* a and b are less than pad apart, in both directions
C6_Within(a, b, pad) ==
    /\ a.left < b.right + pad
    /\ b.left < a.right + pad
    /\ a.top < b.bottom + pad
    /\ b.top < a.bottom + pad

\* the shift was not capped by maxshift
C6_NotCapped ==
    /\ MaxShiftOf(scoot.avoid, scoot.bb, full.width, full.height) >= 0
    /\ RawShift(scoot.avoid, scoot.bb)
          <= MaxShiftOf(scoot.avoid, scoot.bb, full.width, full.height)

\* C6 as stated: after scootTitle the displaced title box is within pad of none
\* of the avoided elements, provided the shift was not capped by maxshift.
C6_NoAvoidedElementWithinPad ==
    (ScootApplied /\ C6_NotCapped) =>
        \A c \in scoot.avoid.sel : ~C6_Within(C6_Displaced, c, PadOf(scoot.avoid))

\* C6 amended: after scootTitle the displaced title box is within pad of none of
\* the avoided elements that the title box intersected (Lib.bBoxIntersect, with
\* pad) before the shift, provided the shift was not capped by maxshift.
C6_ConflictsResolved ==
    (ScootApplied /\ C6_NotCapped) =>
        \A c \in scoot.avoid.sel :
            bBoxIntersect(OffsetBB(scoot.avoid, scoot.bb), c, PadOf(scoot.avoid))
                => ~C6_Within(C6_Displaced, c, PadOf(scoot.avoid))

C6_Witness ==
    /\ ScootApplied /\ C6_NotCapped
    /\ scoot.tr # NoTransform
    /\ Cardinality({c \in scoot.avoid.sel :
                      bBoxIntersect(OffsetBB(scoot.avoid, scoot.bb), c,
                                    PadOf(scoot.avoid))}) = 2

(***************************************************************************)
(* Claims about the legend style pass, checked under SpecLegend.           *)
(***************************************************************************)
\* parseInt(boxsizing.size) of the options the last call of style started with
C8_BoxSize == ParseInt(BoxSizeOf(legend.entry))

\* box sizing is valid: parseInt(boxsizing.size) >= 0 and legend._width < fullLayout.width
C8_Valid ==
    /\ ~C8_BoxSize.nan /\ C8_BoxSize.val >= 0
    /\ legend.entry.width < legend.entry.fullWidth

\* legend._width - legend.itemwidth - 2 * itemGap, in half pixels
C8_AfterText ==
    2 * (legend.entry.width - legend.entry.itemwidth - 2 * legend.entry.itemGap)

\* C8: after style, the 'layers' group of every item is translated horizontally
\* by legend._width - legend.itemwidth - 2*itemGap when aftertext === true, less
\* 0.5*boxsize when box sizing is valid; by 0.5*boxsize when aftertext is not
\* true and box sizing is valid; and keeps the transform of the valign rule when
\* neither applies (transforms in half pixels).
C8_SymbolPlacement ==
    legend.styled =>
        \A i \in DOMAIN legend.items :
            legend.items[i].layers =
                IF AfterTextOf(legend.entry) = "true"
                THEN <<C8_AfterText - (IF C8_Valid THEN C8_BoxSize.val ELSE 0), 0, TRUE>>
                ELSE IF C8_Valid
                     THEN <<C8_BoxSize.val, 0, TRUE>>
                     ELSE ValignTransform(legend.entry, legend.items[i])

\* a legend as wide as the plot, with aftertext and a box size: the box size
\* does not count
C8_Witness ==
    /\ legend.styled
    /\ AfterTextOf(legend.entry) = "true"
    /\ C8_BoxSize.val = 12
    /\ legend.entry.width = legend.entry.fullWidth
    /\ legend.items[1].layers = <<C8_AfterText, 0, TRUE>>

\* the value v that stylePoints passes on for the numeric source value src lies
\* in lo..hi, and is cst under constant item sizing when src is truthy
C9_Bounded(src, v, lo, hi, cst) ==
    src.kind = "number" =>
        /\ v.kind = "number"
        /\ lo <= v.n /\ v.n <= hi
        /\ (legend.entry.itemsizing = "constant" /\ src.n # 0 /\ cst # -1) => v.n = cst

\* C9: when stylePoints shows a marker or a line for a trace whose source value
\* is a number, the marker size it passes on is within [2, 16], the marker
\* opacity within [0.2, 1], the marker line width within [0, 5] and the line
\* width within [0, 10]; under itemsizing 'constant' a truthy source value gives
\* exactly 12, 2 and 5 (opacities in tenths; -1: no constant).
C9_GlyphValuesBounded ==
    (legend.styled /\ legend.error = "") =>
        \A i \in DOMAIN legend.items :
            LET trace == legend.items[i].trace
                pts   == legend.items[i].pts
            IN  /\ pts.showMarker =>
                     /\ C9_Bounded(trace.msize, pts.ms, 2, 16, 12)
                     /\ C9_Bounded(trace.msize, pts.size, 2, 16, 12)
                     /\ C9_Bounded(trace.mopacity, pts.mo, 2, 10, -1)
                     /\ C9_Bounded(trace.mlw, pts.mlw, 0, 5, 2)
                /\ pts.showLine => C9_Bounded(trace.lw, pts.lw, 0, 10, 5)

\* a marker of 30 pixels is shown with 16, a line of 15 pixels with 10
C9_Witness ==
    /\ legend.styled /\ legend.error = ""
    /\ legend.entry.itemsizing = "trace"
    /\ legend.items[1].pts.showMarker /\ legend.items[1].pts.showLine
    /\ legend.items[1].trace.msize = Num(30) /\ legend.items[1].pts.ms = Num(16)
    /\ legend.items[1].trace.lw = Num(15) /\ legend.items[1].pts.lw = Num(10)

\* C11: with legend.hidetoggle truthy, styleLines draws no fill path and no
\* line path, solid or gradient, and stylePoints draws no marker path, for
\* every trace.
C11_HideToggleDrawsNothing ==
    (legend.styled /\ legend.error = "" /\ legend.entry.hidetoggle) =>
        \A i \in DOMAIN legend.items :
            /\ ~legend.items[i].lines.fillPath
            /\ ~legend.items[i].lines.linePath
            /\ ~legend.items[i].pts.showMarker

\* a contour trace coloured by lines, which has a gradient line without the toggle
C11_Witness ==
    /\ legend.styled /\ legend.error = "" /\ legend.entry.hidetoggle
    /\ legend.items[1].trace.contours.coloring = "lines"
    /\ legend.items[1].trace.visible
    /\ ~legend.items[1].lines.linePath

\* C12: with symbolstyle.style 'markers' or 'none' no line path and no fill path
\* is drawn for any legend item, area fills and contour traces included; with
\* 'lines' or 'none' no marker path is drawn.
C12_SymbolStyleHidesPaths ==
    (legend.styled /\ legend.error = "") =>
        \A i \in DOMAIN legend.items :
            /\ SymbolStyleOf(legend.entry) \in {"markers", "none"} =>
                  (~legend.items[i].lines.linePath /\ ~legend.items[i].lines.fillPath)
            /\ SymbolStyleOf(legend.entry) \in {"lines", "none"} =>
                  ~legend.items[i].pts.showMarker

\* a ternary axis title was drawn by the last call and has a text element
C13_TernaryDrawn ==
    /\ last.cls \in {"atitle", "btitle", "ctitle"}
    /\ dom[last.group].e.el

\* the flag of layout.legend.inpixonCustomAttribute for the title drawn last
C13_Flag ==
    CASE last.cls = "atitle" -> layout.disableternaryatitle
      [] last.cls = "btitle" -> layout.disableternarybtitle
      [] OTHER -> layout.disableternaryctitle

\* C13 as stated: after draw of atitle, btitle or ctitle the text element shows
\* the title text if and only if the flag of the title is exactly true; with the
\* flag false or absent the text is ''.
C13_TextExactlyWhenFlagTrue ==
    C13_TernaryDrawn =>
        /\ C13_Flag = "true" => dom[last.group].e.text = last.txt
        /\ C13_Flag # "true" => dom[last.group].e.text = ""

\* C13 amended: when the title text txt is not empty, the element shows txt if
\* the flag is exactly true and '' if it is false or absent.  When txt is empty
\* the element exists only for an editable title, and a call that reaches its
\* end leaves the placeholder text in it whatever the flag is.
C13_TextOfNonEmptyTernaryTitle ==
    C13_TernaryDrawn =>
        IF last.txt # ""
        THEN /\ C13_Flag = "true" => dom[last.group].e.text = last.txt
             /\ C13_Flag # "true" => dom[last.group].e.text = ""
        ELSE /\ last.editable
             /\ last.exit = "end" => dom[last.group].e.text = PlaceholderOf(last.cls)

\* a title with a text whose flag is absent
C13_Witness ==
    /\ C13_TernaryDrawn /\ last.txt = "T"
    /\ last.cls = "btitle" /\ layout.disableternarybtitle = U
    /\ dom[last.group].e.text = ""

\* the radial axis title was drawn by the last call and has a text element
C14_PolarDrawn ==
    /\ last.cls = "polartitle"
    /\ dom[last.group].e.el

\* the condition of the claim on the two flags and the side of the radial axis
C14_Hidden ==
    \/ layout.radartitleclockwise = "false" /\ layout.polarside = "clockwise"
    \/ layout.radartitlecounterclockwise = "false" /\ layout.polarside = "counterclockwise"

\* C14 as stated: after draw of polartitle the text is '' exactly when
\* (radartitleclockwise === false and side 'clockwise') or
\* (radartitlecounterclockwise === false and side 'counterclockwise'), and the
\* title text in every other case.
C14_TextEmptyExactlyWhenHidden ==
    C14_PolarDrawn =>
        /\ (dom[last.group].e.text = "") <=> C14_Hidden
        /\ ~C14_Hidden => dom[last.group].e.text = last.txt

\* C14 amended: when the title text txt is not empty, the text is '' exactly
\* when the flags hide the title on its side, and txt otherwise, absent flags
\* and an absent side included.  When txt is empty the element exists only for
\* an editable title, and a call that reaches its end leaves the placeholder
\* text in it whatever the flags are.
C14_TextOfNonEmptyPolarTitle ==
    C14_PolarDrawn =>
        IF last.txt # ""
        THEN /\ (dom[last.group].e.text = "") <=> C14_Hidden
             /\ ~C14_Hidden => dom[last.group].e.text = last.txt
        ELSE /\ last.editable
             /\ last.exit = "end" => dom[last.group].e.text = PlaceholderOf(last.cls)

\* a title hidden on the counterclockwise side while the clockwise flag is absent
C14_Witness ==
    /\ C14_PolarDrawn /\ last.txt = "T"
    /\ layout.polarside = "counterclockwise"
    /\ layout.radartitlecounterclockwise = "false" /\ layout.radartitleclockwise = U
    /\ dom[last.group].e.text = ""

\* the number of glyph paths the claim gives each trace type
C15_PathCount(trace) ==
    IF ~trace.visible THEN 0
    ELSE CASE trace.type \in {"histogram2d", "heatmap", "choropleth",
                              "choroplethmapbox", "densitymapbox"} -> 1
           [] trace.type = "surface" -> 2
           [] trace.type \in {"cone", "streamtube", "mesh3d", "volume", "isosurface"} -> 3
           [] OTHER -> 0

\* the types the claim has flagged useGradient
C15_GradientTypes ==
    {"histogram2d", "heatmap", "choropleth", "choroplethmapbox", "densitymapbox",
     "surface", "volume"}

\* C15: styleSpatial leaves exactly 1 'legend3dandfriends' path for a visible
\* histogram2d, heatmap, choropleth, choroplethmapbox or densitymapbox trace, 2
\* for surface, 3 for cone, streamtube, mesh3d, volume and isosurface, and 0 for
\* a trace that is not visible or of another type; a path is filled with a
\* gradient only for a type flagged useGradient (radial only for
\* densitymapbox) and only when no solid fill colour was determined.
C15_SpatialGlyphs ==
    (legend.styled /\ legend.error = "") =>
        \A i \in DOMAIN legend.items :
            LET it == legend.items[i]
            IN  /\ it.spatial.paths = C15_PathCount(it.trace)
                /\ Len(it.spatial.fills) = it.spatial.paths
                /\ \A k \in DOMAIN it.spatial.fills :
                      it.spatial.fills[k].call = "fillGradient" =>
                          /\ it.trace.type \in C15_GradientTypes
                          /\ (IndexOf(it.spatial.fills[k].direction, "radial") # -1)
                                 <=> (it.trace.type = "densitymapbox")
                          /\ it.spatial.fills[k].color = U

\* the marker of the direction of a distinct waterfall item
C16_Marker(it) ==
    CASE it.dir = "increasing" -> it.trace.increasing.marker
      [] it.dir = "decreasing" -> it.trace.decreasing.marker
      [] OTHER -> it.trace.totals.marker

\* the bar glyph of a distinct item: its colour and its line are those of
\* trace[dir].marker, the width bounded as every marker line of the legend is
C16_BarFromMarker(it, constant) ==
    LET m == C16_Marker(it)
        w == IF constant THEN CST_MARKER_LINE_WIDTH
             ELSE IF m.line.width.n > MAX_MARKER_LINE_WIDTH
                  THEN MAX_MARKER_LINE_WIDTH ELSE m.line.width.n
    IN  /\ it.waterfall.bar.paths = 1
        /\ it.waterfall.bar.fill = m.color
        /\ it.waterfall.bar.width = w
        /\ w > 0 => it.waterfall.bar.stroke = m.line.color

\* C16: for a waterfall legend item with _distinct set, one bar-like glyph is
\* drawn whose colour and line come from trace[dir].marker and no triangle path
\* is processed; otherwise a visible waterfall trace gets exactly 3
\* 'legendwaterfall' paths (increasing, totals, decreasing) when hasTotals and
\* exactly 2 (increasing, decreasing) when not; a trace that is not a visible
\* waterfall gets 0 such paths.
C16_WaterfallGlyphs ==
    (legend.styled /\ legend.error = "") =>
        \A i \in DOMAIN legend.items :
            LET it == legend.items[i]
                wf == it.waterfall
                dirs == [k \in DOMAIN wf.tri |-> wf.tri[k].dir]
            IN  IF ~(it.trace.visible /\ it.trace.type = "waterfall")
                THEN wf.bar.paths = 0 /\ wf.tri = <<>>
                ELSE IF it.distinct
                     THEN /\ C16_BarFromMarker(it, legend.entry.itemsizing = "constant")
                          /\ wf.tri = <<>>
                     ELSE /\ wf.bar.paths = 0
                          /\ dirs = IF it.hasTotals
                                    THEN <<"increasing", "totals", "decreasing">>
                                    ELSE <<"increasing", "decreasing">>

\* a distinct item of the decreasing direction with its bar
C16_WitnessDistinct ==
    /\ legend.styled /\ legend.error = "" /\ Len(legend.items) = 1
    /\ legend.items[1].trace.type = "waterfall" /\ legend.items[1].trace.visible
    /\ legend.items[1].distinct /\ legend.items[1].dir = "decreasing"
    /\ legend.items[1].waterfall.bar.fill = "red"

====
